---- MODULE Spec2Model ----
(***************************************************************************)
(* Piece-table text buffer of bgrundmann/e (package buf): the byte store,  *)
(* the circular doubly linked piece list with its sentinel, the edit       *)
(* operations Insert / Delete / Write, the observer registry with markers, *)
(* and the Reader.                                                         *)
(***************************************************************************)
EXTENDS Integers, Sequences, FiniteSets, TLC

\* ------------------------------------------------------------------ bounds

\* Largest size the byte store may grow to (Insert is not offered beyond it).
MaxStore == 3

\* The same, in the runs that also register markers.
MaxMarkedStore == 2

\* Largest number of observers ever registered (cap on nextFreeObserverId).
MaxObservers == 1

\* Largest destination slice handed to Reader.Read.
MaxDst == 2

\* The byte strings callers insert: the empty string, an ASCII letter, a
\* newline followed by a letter, and the two-byte UTF-8 encoding of U+00E9.
Strings == { <<>>, <<97>>, <<10, 98>>, <<195, 169>> }

\* ------------------------------------------------------------------ state

VARIABLES
    bytes,               \* Buf.bytes: the append-only byte store
    pieces,              \* the heap of piece structs, by address; 0 is Buf.sentinel
    len,                 \* Buf.len
    nextFreeObserverId,  \* Buf.nextFreeObserverId
    observers,           \* Buf.observers: id -> the marker registered under it
    lineCache,           \* Buf.lineCache
    lines,               \* Buf.lines
    calls,               \* id -> the callbacks the observer got from the latest edit
    hist,                \* the latest two edit calls, newest first, with the
                         \* document the caller saw before each; empty once the
                         \* caller has turned to markers, to a Reader or to a
                         \* query
    rd,                  \* the caller's Reader: <<>> or <<reader>>
    out,                 \* where the Reader started, the bytes its Read calls
                         \* have returned so far and the error of the last one
    ret,                 \* the latest query of the buffer (Lines, Line,
                         \* PositionFromOffset, PositionToOffset) and its result
    log,                 \* the latest calls on the Reader and their results, and
                         \* the runes its ReadRune calls have returned
    panicked             \* TRUE once a call has panicked: the program is gone

vars == << bytes, pieces, len, nextFreeObserverId, observers, lineCache, lines,
           calls, hist, rd, out, ret, log, panicked >>

\* ------------------------------------------------------------------ pieces

\* Address of Buf.sentinel.
Sentinel == 0

\* The nil pointer (prev / next of a freshly allocated piece).
Nil == -1

Min(a, b) == IF a <= b THEN a ELSE b

\* A heap H is [ok, P]: P maps the address of every piece allocated so far to
\* its fields, ok is FALSE once a nil pointer has been dereferenced (the
\* runtime panic of Go); every later step leaves a failed heap as it is.

\* &piece{off1: .., off2: ..}: a new piece, at the lowest free address.
newPiece(P, off1, off2) ==
    LET a == CHOOSE i \in 1 .. Cardinality(DOMAIN P) + 1 :
                 /\ i \notin DOMAIN P
                 /\ \A j \in 1 .. i - 1 : j \in DOMAIN P
    IN  [ P |-> P @@ (a :> [off1 |-> off1, off2 |-> off2, prev |-> Nil, next |-> Nil]),
          p |-> a ]

pieceLen(P, p) == P[p].off2 - P[p].off1

\* p.link(p2): p.next = p2, then p2.prev = p.
link(H, p, p2) ==
    IF ~H.ok THEN H
    ELSE IF p = Nil THEN [H EXCEPT !.ok = FALSE]
    ELSE IF p2 = Nil THEN [ ok |-> FALSE, P |-> [H.P EXCEPT ![p].next = p2] ]
    ELSE [ ok |-> TRUE,
           P  |-> [[H.P EXCEPT ![p].next = p2] EXCEPT ![p2].prev = p] ]

splitOneShort(P, p, n) ==
    LET off2 == P[p].off1 + n - 1
        l    == newPiece(P, P[p].off1, off2)
        r    == newPiece(l.P, off2, P[p].off2)
    IN  [ P |-> r.P, left |-> l.p, right |-> r.p ]

\* split piece p into two new pieces such that the first is n bytes long
split(P, p, n) ==
    LET off2 == P[p].off1 + n
        l    == newPiece(P, P[p].off1, off2)
        r    == newPiece(l.P, off2, P[p].off2)
    IN  [ P |-> r.P, left |-> l.p, right |-> r.p ]

\* The loop of findPiece; reading piece.len() through a nil piece panics.
RECURSIVE findPieceFrom(_, _, _, _)
findPieceFrom(P, piece, pieceStart, off) ==
    IF piece = Sentinel
    THEN [ ok |-> TRUE, pieceStart |-> pieceStart, piece |-> piece ]
    ELSE IF piece = Nil
    THEN [ ok |-> FALSE, pieceStart |-> pieceStart, piece |-> piece ]
    ELSE IF pieceStart <= off /\ off < pieceStart + pieceLen(P, piece)
         THEN [ ok |-> TRUE, pieceStart |-> pieceStart, piece |-> piece ]
         ELSE findPieceFrom(P, P[piece].next, pieceStart + pieceLen(P, piece), off)

findPiece(P, off) == findPieceFrom(P, P[Sentinel].next, 0, off)

sliceOfPiece(B, P, p) == SubSeq(B, P[p].off1 + 1, P[p].off2)

\* The loop of eachpiece as String uses it: the slices of the pieces from p
\* on, in list order; f(p) on a nil p panics in sliceOfPiece.
RECURSIVE eachpiece(_, _, _)
eachpiece(B, P, p) ==
    IF p = Sentinel THEN [ ok |-> TRUE, s |-> <<>> ]
    ELSE IF p = Nil THEN [ ok |-> FALSE, s |-> <<>> ]
    ELSE LET rest == eachpiece(B, P, P[p].next)
         IN  [ ok |-> rest.ok, s |-> sliceOfPiece(B, P, p) \o rest.s ]

\* Buf.String: [ok, s], ok = FALSE when the call panics.
String(B, P) == eachpiece(B, P, P[Sentinel].next)

\* The pieces the program can still reach: from the sentinel over next and
\* prev. Go's collector frees the others, and their addresses are free again.
RECURSIVE reach(_, _)
reach(P, S) ==
    LET T == S \cup { q \in DOMAIN P : \E p \in S : q = P[p].next \/ q = P[p].prev }
    IN  IF T = S THEN S ELSE reach(P, T)

collect(P) == [ p \in reach(P, {Sentinel}) |-> P[p] ]

\* ------------------------------------------------------------------ markers

OnBufInsertAfterOnly(m, off, s) == IF off < m THEN m + Len(s) ELSE m

\* marker.OnBufInsert on a marker at offset m: the marker's new offset.
OnBufInsert(m, off, s) == IF off <= m THEN m + Len(s) ELSE m

OnBufDeleteBeforeOnly(m, off1, off2) == IF off2 < m THEN m - (off2 - off1) ELSE m

\* marker.OnBufDelete on a marker at offset m: the marker's new offset.
OnBufDelete(m, off1, off2) == IF off2 <= m THEN m - (off2 - off1) ELSE m

\* ------------------------------------------------------------------ edits

\* The buffer as an edit call finds it, with an empty callback log; ok turns
\* FALSE when the call panics.
World ==
    [ ok |-> TRUE, bytes |-> bytes, pieces |-> pieces, len |-> len,
      observers |-> observers, lineCache |-> lineCache, lines |-> lines,
      calls |-> [id \in DOMAIN observers |-> <<>>] ]

\* What an observer can see of the buffer while it is being called back.
Seen(W) == [ len |-> W.len, str |-> String(W.bytes, W.pieces), pieces |-> W.pieces ]

\* b.lineCache.line = 0; b.lines = 0
invalidate(W) == [W EXCEPT !.lineCache.line = 0, !.lines = 0]

\* for _, ob := range b.observers { ob.OnBufInsert(off, s) }
\* (the callbacks of markers touch only their own marker, so the iteration
\* order of the map does not show in the result)
notifyInsert(W, off, s) ==
    [W EXCEPT
       !.observers = [id \in DOMAIN W.observers |-> OnBufInsert(W.observers[id], off, s)],
       !.calls = [id \in DOMAIN W.observers |->
                    Append(W.calls[id],
                           [cb |-> "OnBufInsert", a1 |-> off, a2 |-> s, seen |-> Seen(W)])]]

\* for _, ob := range b.observers { ob.OnBufDelete(off1, off2) }
notifyDelete(W, off1, off2) ==
    [W EXCEPT
       !.observers = [id \in DOMAIN W.observers |-> OnBufDelete(W.observers[id], off1, off2)],
       !.calls = [id \in DOMAIN W.observers |->
                    Append(W.calls[id],
                           [cb |-> "OnBufDelete", a1 |-> off1, a2 |-> off2, seen |-> Seen(W)])]]

insertPieceInPlace(W, off, s) ==
    LET n  == Len(s)
        W2 == [W EXCEPT !.bytes = SubSeq(@, 1, off) \o s \o SubSeq(@, off + 1, Len(@))]
        np == newPiece(W2.pieces, off, off + n)
        f  == findPiece(np.P, off)
    IN  IF ~f.ok THEN [W2 EXCEPT !.ok = FALSE]
        ELSE
          LET H == link(link([ok |-> TRUE, P |-> np.P], np.p, f.piece),
                        np.P[f.piece].prev, np.p)
          IN  IF ~H.ok THEN [W2 EXCEPT !.ok = FALSE, !.pieces = H.P]
              ELSE [W2 EXCEPT !.pieces = H.P, !.len = @ + n]

\* Buf.Insert from b.bytes.Write(s) on: the bytes go to the store, the new
\* piece into the list, and len grows.
insertPiece(W, off, s) ==
    LET off1 == Len(W.bytes)
        n    == Len(s)
        W2   == [W EXCEPT !.bytes = @ \o s]
        np   == newPiece(W2.pieces, off1, off1 + n)
        f    == findPiece(np.P, off)
    IN  IF ~f.ok THEN [W2 EXCEPT !.ok = FALSE]
        ELSE
          LET left == np.P[f.piece].prev
              H == IF off = f.pieceStart
                   THEN \* insert at beginning of piece
                        link(link([ok |-> TRUE, P |-> np.P], np.p, f.piece), left, np.p)
                   ELSE \* split piece and insert in middle
                        LET sp == split(np.P, f.piece, off - f.pieceStart)
                        IN  link(link(link([ok |-> TRUE, P |-> sp.P],
                                           sp.left, np.p),
                                      np.p, sp.right),
                                 left, sp.left)
          IN  IF ~H.ok THEN [W2 EXCEPT !.ok = FALSE, !.pieces = H.P]
              ELSE [W2 EXCEPT !.pieces = H.P, !.len = @ + n]

InsertNotifyLast(W, off, s) ==
    IF off < 0 \/ off > W.len THEN [W EXCEPT !.ok = FALSE]
    ELSE IF Len(s) = 0 THEN W
    ELSE notifyInsert(insertPiece(invalidate(W), off, s), off, s)

InsertOfEmptyPiece(W, off, s) ==
    IF off < 0 \/ off > W.len THEN [W EXCEPT !.ok = FALSE]
    ELSE insertPiece(notifyInsert(invalidate(W), off, s), off, s)

\* Buf.Insert
Insert(W, off, s) ==
    IF off < 0 \/ off > W.len THEN [W EXCEPT !.ok = FALSE]
    ELSE IF Len(s) = 0 THEN W
    ELSE insertPiece(notifyInsert(invalidate(W), off, s), off, s)

\* Buf.Delete from the two findPiece calls on: the list is cut at both ends
\* of the range, the ends are linked, and len shrinks.
unlinkRange(W, off1, off2) ==
    LET P  == W.pieces
        f1 == findPiece(P, off1)
        f2 == findPiece(P, off2)
    IN  IF ~f1.ok \/ ~f2.ok THEN [W EXCEPT !.ok = FALSE]
        ELSE
          LET p1 == f1.piece
              p2 == f2.piece
              \* the left end: [H, left]
              L  == IF off1 = f1.pieceStart
                    THEN \* we are deleting all of p1
                         [ H |-> [ok |-> TRUE, P |-> P], left |-> P[p1].prev ]
                    ELSE LET sp == split(P, p1, off1 - f1.pieceStart)
                         IN  [ H    |-> link([ok |-> TRUE, P |-> sp.P], P[p1].prev, sp.left),
                               left |-> sp.left ]
              \* the right end: [H, right]
              R  == IF off2 = f2.pieceStart
                    THEN \* at the beginning of p2: nothing of it is deleted
                         [ H |-> L.H, right |-> p2 ]
                    ELSE LET sp == split(L.H.P, p2, off2 - f2.pieceStart)
                         IN  [ H     |-> link([L.H EXCEPT !.P = sp.P], sp.right, L.H.P[p2].next),
                               right |-> sp.right ]
              H  == link(R.H, L.left, R.right)
          IN  IF ~H.ok THEN [W EXCEPT !.ok = FALSE, !.pieces = H.P]
              ELSE [W EXCEPT !.pieces = H.P, !.len = @ - (off2 - off1)]

DeleteChecksLate(W, off1, off2) ==
    IF off1 = off2 THEN W
    ELSE IF off1 > off2 \/ off1 < 0 \/ off2 > W.len
    THEN [notifyDelete(invalidate(W), off1, off2) EXCEPT !.ok = FALSE]
    ELSE unlinkRange(notifyDelete(invalidate(W), off1, off2), off1, off2)

\* Buf.Delete
Delete(W, off1, off2) ==
    IF off1 > off2 \/ off1 < 0 \/ off2 > W.len THEN [W EXCEPT !.ok = FALSE]
    ELSE IF off1 = off2 THEN W
    ELSE unlinkRange(notifyDelete(invalidate(W), off1, off2), off1, off2)

\* Buf.Write: [W, n]
Write(W, p) == [ W |-> Insert(W, W.len, p), n |-> Len(p) ]

\* ------------------------------------------------------------------ actions

\* No query of the buffer since the latest edit.
NoQuery == [ op |-> "none" ]

\* No call on the Reader yet: ops are the latest calls, newest first; fwd are
\* the runes read forward since NewReader(from), bwd the runes read backward since
\* the Reverse that followed them at offset turn.
NoLog == [ ops |-> <<>>, from |-> 0, fwd |-> <<>>, bwd |-> <<>>, turned |-> FALSE,
           turn |-> 0, plain |-> TRUE ]

\* Buf.Init on a zero Buf
Init ==
    /\ bytes = <<>>
    /\ pieces = (Sentinel :> [off1 |-> 0, off2 |-> 0, prev |-> Sentinel, next |-> Sentinel])
    /\ len = 0
    /\ nextFreeObserverId = 0
    /\ observers = <<>>
    /\ lineCache = [line |-> 0, off |-> 0]
    /\ lines = 0
    /\ calls = <<>>
    /\ hist = <<>>
    /\ rd = <<>>
    /\ out = [from |-> 0, data |-> <<>>, err |-> "nil"]
    /\ ret = NoQuery
    /\ log = NoLog
    /\ panicked = FALSE

\* What the caller sees of the document before a call.
Pre == [ str |-> String(bytes, pieces), len |-> len, observers |-> observers,
         pieces |-> pieces, bytes |-> bytes, lineCache |-> lineCache,
         lines |-> lines ]

\* Delete(a, a + |s|) directly after a successful Insert(a, s), as in
\* ExampleBufDelete and scenario 7.
Undoes(op, a1, a2) ==
    /\ op = "Delete"
    /\ hist # <<>>
    /\ hist[1].op = "Insert" /\ hist[1].ok /\ hist[1].a2 # <<>>
    /\ a1 = hist[1].a1 /\ a2 = a1 + Len(hist[1].a2)

\* The call is the newest entry of hist; the call before it is kept when
\* this one undoes it.
Remember(op, a1, a2, ok) ==
    hist' = << [op |-> op, a1 |-> a1, a2 |-> a2, ok |-> ok, pre |-> Pre] >>
            \o (IF Undoes(op, a1, a2) THEN << hist[1] >> ELSE <<>>)

\* The buffer after an edit call that left it as W; a Reader does not
\* outlive an edit.
Apply(W) ==
    /\ bytes' = W.bytes
    /\ pieces' = collect(W.pieces)
    /\ len' = W.len
    /\ observers' = W.observers
    /\ lineCache' = W.lineCache
    /\ lines' = W.lines
    /\ calls' = W.calls
    /\ panicked' = ~W.ok
    /\ rd' = <<>>
    /\ ret' = NoQuery
    /\ log' = NoLog
    /\ UNCHANGED << nextFreeObserverId, out >>

\* Insert(off, s) at any offset of the document, while the store stays
\* within cap bytes
InsertUpTo(cap) ==
    /\ ~panicked
    /\ \E off \in 0 .. len, s \in Strings :
         /\ Len(bytes) + Len(s) <= cap
         /\ LET W == Insert(World, off, s)
            IN  Apply(W) /\ Remember("Insert", off, s, W.ok)

\* Write(p), while the store stays within cap bytes; it is Insert(b.len, p)
WriteUpTo(cap) ==
    /\ ~panicked
    /\ \E p \in Strings :
         /\ Len(bytes) + Len(p) <= cap
         /\ LET r == Write(World, p)
            IN  Apply(r.W) /\ Remember("Insert", len, p, r.W.ok)

DoInsert == InsertUpTo(MaxStore)

DoWrite == WriteUpTo(MaxStore)

DoInsertMarked == InsertUpTo(MaxMarkedStore)

DoWriteMarked == WriteUpTo(MaxMarkedStore)

\* Delete(off1, off2) of any range of the document
DoDelete ==
    /\ ~panicked
    /\ \E off1 \in 0 .. len, off2 \in 0 .. len :
         /\ off1 <= off2
         /\ LET W == Delete(World, off1, off2)
            IN  Apply(W) /\ Remember("Delete", off1, off2, W.ok)

\* Insert(off, s) at an offset just outside the document
DoInsertOutOfRange ==
    /\ ~panicked
    /\ \E off \in { -1, len + 1 }, s \in Strings :
         LET W == Insert(World, off, s)
         IN  Apply(W) /\ Remember("Insert", off, s, W.ok)

\* Delete(off1, off2) of a range that is no range of the document: it
\* starts before the document, ends beyond it, or ends before it starts
DoDeleteOutOfRange ==
    /\ ~panicked
    /\ \E off1 \in -1 .. len, off2 \in -1 .. len + 1 :
         /\ off1 > off2 \/ off1 < 0 \/ off2 > len
         /\ LET W == Delete(World, off1, off2)
            IN  Apply(W) /\ Remember("Delete", off1, off2, W.ok)

\* Buf.NewMarker with Buf.AddObserver
NewMarker ==
    /\ ~panicked
    /\ nextFreeObserverId < MaxObservers
    /\ \E off \in 0 .. len :
         /\ observers' = observers @@ (nextFreeObserverId :> off)
         /\ calls' = calls @@ (nextFreeObserverId :> <<>>)
    /\ nextFreeObserverId' = nextFreeObserverId + 1
    /\ hist' = <<>>
    /\ UNCHANGED << bytes, pieces, len, lineCache, lines, rd, out, ret, log, panicked >>

\* marker.Move, to an offset of the document
Move ==
    /\ ~panicked
    /\ \E id \in DOMAIN observers, off \in 0 .. len :
         observers' = [observers EXCEPT ![id] = off]
    /\ hist' = <<>>
    /\ UNCHANGED << bytes, pieces, len, nextFreeObserverId, lineCache, lines, calls,
                    rd, out, ret, log, panicked >>

\* Buf.RemoveObserver; delete of an id that is not registered changes nothing
RemoveObserver ==
    /\ ~panicked
    /\ \E id \in 0 .. MaxObservers - 1 :
         LET keep == DOMAIN observers \ {id}
         IN  /\ observers' = [i \in keep |-> observers[i]]
             /\ calls' = [i \in keep |-> calls[i]]
    /\ hist' = <<>>
    /\ UNCHANGED << bytes, pieces, len, nextFreeObserverId, lineCache, lines,
                    rd, out, ret, log, panicked >>

\* ------------------------------------------------------------------ Reader

\* Buf.NewReader: [ok, r]
NewReader(P, off) ==
    LET f == findPiece(P, off)
    IN  [ ok |-> f.ok,
          r  |-> [ piece |-> f.piece, offInPiece |-> off - f.pieceStart, off |-> off,
                   reverse |-> FALSE, lastRuneSize |-> -1 ] ]

\* Reader.Read from the label process_piece on, with dst[:offDst] = dst so
\* far and len(dst) = k: [ok, r, data, err]
RECURSIVE processPiece(_, _, _, _, _)
processPiece(B, P, r, dst, k) ==
    IF r.piece = Sentinel
    THEN \* no more bytes: return however much we copied
         [ ok |-> TRUE, r |-> r, data |-> dst, err |-> "EOF" ]
    ELSE IF r.piece = Nil \/ r.offInPiece > pieceLen(P, r.piece)
    THEN [ ok |-> FALSE, r |-> r, data |-> dst, err |-> "panic" ]
    ELSE
      LET bs   == sliceOfPiece(B, P, r.piece)
          n    == Min(k - Len(dst), Len(bs) - r.offInPiece)
          dst2 == dst \o SubSeq(bs, r.offInPiece + 1, r.offInPiece + n)
          r2   == [r EXCEPT !.off = @ + n]
      IN  IF Len(dst2) = k
          THEN \* no more space in buffer
               [ ok |-> TRUE, data |-> dst2, err |-> "nil",
                 r  |-> [r2 EXCEPT !.offInPiece = @ + n, !.lastRuneSize = -1] ]
          ELSE \* done with the current piece, still space in the buffer
               processPiece(B, P, [r2 EXCEPT !.piece = P[r.piece].next, !.offInPiece = 0],
                            dst2, k)

\* Reader.Read(dst) with len(dst) = k
Read(B, P, r, k) ==
    IF r.reverse THEN [ ok |-> FALSE, r |-> r, data |-> <<>>, err |-> "panic" ]
    ELSE processPiece(B, P, r, <<>>, k)

\* The call is the newest entry of log.ops, with the Reader as it was before
\* the call; the call before it is kept for UnreadRune, whose result depends
\* on it. A call that is no ReadRune ends the plain run of rune reads.
Logged(op, err) ==
    log' = [NoLog EXCEPT
              !.ops = << [op |-> op, pre |-> rd[1], err |-> err] >>
                      \o (IF op = "UnreadRune" /\ log.ops # <<>>
                          THEN << log.ops[1] >> ELSE <<>>),
              !.plain = FALSE]

DoNewReader ==
    /\ ~panicked
    /\ \E off \in 0 .. len :
         LET n == NewReader(pieces, off)
         IN  /\ rd' = IF n.ok THEN << n.r >> ELSE <<>>
             /\ panicked' = ~n.ok
             /\ out' = [from |-> off, data |-> <<>>, err |-> "nil"]
             /\ log' = [NoLog EXCEPT !.from = off]
    /\ hist' = <<>>
    /\ UNCHANGED << bytes, pieces, len, nextFreeObserverId, observers, lineCache,
                    lines, calls, ret >>

\* One more r.Read(dst) of a caller that reads until it gets an error
DoRead ==
    /\ ~panicked
    /\ rd # <<>>
    /\ out.err = "nil"
    /\ \E k \in 1 .. MaxDst :
         LET res == Read(bytes, pieces, rd[1], k)
         IN  /\ rd' = << res.r >>
             /\ panicked' = ~res.ok
             /\ out' = [out EXCEPT !.data = @ \o res.data, !.err = res.err]
             /\ Logged("Read", res.err)
    /\ UNCHANGED << bytes, pieces, len, nextFreeObserverId, observers, lineCache,
                    lines, calls, hist, ret >>

\* ------------------------------------------------------------------ runes

\* utf8.RuneError
RuneError == 65533

\* utf8.UTFMax
UTFMax == 4

\* The entry of utf8's table first for a first byte b: the number of bytes of
\* the encoding it starts (0 for ASCII and 1 for a byte that starts none, as
\* the low three bits of the entry are) and the range the second byte has to
\* be in.
first(b) ==
    IF b < 128 THEN [ sz |-> 0, lo |-> 0, hi |-> 0 ]
    ELSE IF b < 194 THEN [ sz |-> 1, lo |-> 0, hi |-> 0 ]
    ELSE IF b < 224 THEN [ sz |-> 2, lo |-> 128, hi |-> 191 ]
    ELSE IF b = 224 THEN [ sz |-> 3, lo |-> 160, hi |-> 191 ]
    ELSE IF b = 237 THEN [ sz |-> 3, lo |-> 128, hi |-> 159 ]
    ELSE IF b < 240 THEN [ sz |-> 3, lo |-> 128, hi |-> 191 ]
    ELSE IF b = 240 THEN [ sz |-> 4, lo |-> 144, hi |-> 191 ]
    ELSE IF b < 244 THEN [ sz |-> 4, lo |-> 128, hi |-> 191 ]
    ELSE IF b = 244 THEN [ sz |-> 4, lo |-> 128, hi |-> 143 ]
    ELSE [ sz |-> 1, lo |-> 0, hi |-> 0 ]

\* b is no continuation byte (locb .. hicb)
notCont(b) == b < 128 \/ 191 < b

\* utf8.FullRune: p begins with a full encoding of a rune; an encoding that
\* is invalid counts as full, it decodes as an error rune of width 1.
FullRune(p) ==
    LET n == Len(p)
    IN  IF n = 0 THEN FALSE
        ELSE LET x == first(p[1])
             IN  IF n >= x.sz THEN TRUE
                 ELSE IF n > 1 /\ (p[2] < x.lo \/ x.hi < p[2]) THEN TRUE
                 ELSE IF n > 2 /\ notCont(p[3]) THEN TRUE
                 ELSE FALSE

\* utf8.DecodeRune: [rune, size]
DecodeRune(p) ==
    LET n == Len(p)
    IN  IF n < 1 THEN [ rune |-> RuneError, size |-> 0 ]
        ELSE
          LET p0 == p[1]
              x  == first(p0)
          IN  IF x.sz = 0 THEN [ rune |-> p0, size |-> 1 ]
              ELSE IF x.sz = 1 THEN [ rune |-> RuneError, size |-> 1 ]
              ELSE IF n < x.sz THEN [ rune |-> RuneError, size |-> 1 ]
              ELSE IF p[2] < x.lo \/ x.hi < p[2] THEN [ rune |-> RuneError, size |-> 1 ]
              ELSE IF x.sz <= 2
                   THEN [ rune |-> (p0 % 32) * 64 + (p[2] % 64), size |-> 2 ]
              ELSE IF notCont(p[3]) THEN [ rune |-> RuneError, size |-> 1 ]
              ELSE IF x.sz <= 3
                   THEN [ rune |-> (p0 % 16) * 4096 + (p[2] % 64) * 64 + (p[3] % 64),
                          size |-> 3 ]
              ELSE IF notCont(p[4]) THEN [ rune |-> RuneError, size |-> 1 ]
              ELSE [ rune |-> (p0 % 8) * 262144 + (p[2] % 64) * 4096
                                + (p[3] % 64) * 64 + (p[4] % 64),
                     size |-> 4 ]

\* What a rune read returns: [ok, r, rune, size, err]; ok is FALSE when the
\* call panics.
runePanic(r) == [ ok |-> FALSE, r |-> r, rune |-> 0, size |-> 0, err |-> "panic" ]

runeEOF(r) == [ ok |-> TRUE, r |-> r, rune |-> 0, size |-> 0, err |-> "EOF" ]

\* return r, size, nil with the decoded d = [rune, size], the Reader left as r
runeOf(d, r) == [ ok |-> TRUE, r |-> r, rune |-> d.rune, size |-> d.size, err |-> "nil" ]

\* Reader.readRuneForward
readRuneForward(B, P, r) ==
    IF r.piece = Nil \/ r.offInPiece < 0 \/ r.offInPiece > pieceLen(P, r.piece)
    THEN runePanic(r)
    ELSE
      LET \* r, size = ..; rd.off += size; rd.offInPiece += size
          inPiece(d) == runeOf(d, [r EXCEPT !.off = @ + d.size, !.offInPiece = @ + d.size])
          \* n, err := rd.Read(buf[:]) has returned rr
          staged(rr) == IF ~rr.ok THEN runePanic(rr.r)
                        ELSE IF Len(rr.data) = 0 THEN runeEOF(rr.r)
                        ELSE runeOf(DecodeRune(rr.data), rr.r)
          decode(bs) ==
              IF Len(bs) > 0 /\ bs[1] < 128
              THEN \* one byte utf-8 sequence
                   inPiece([ rune |-> bs[1], size |-> 1 ])
              ELSE IF FullRune(bs)
              THEN \* multi byte but complete in current piece
                   inPiece(DecodeRune(bs))
              ELSE \* need to read several bytes
                   staged(Read(B, P, r, UTFMax))
      IN  decode(SubSeq(sliceOfPiece(B, P, r.piece), r.offInPiece + 1,
                        pieceLen(P, r.piece)))

\* if rd.offInPiece <= 0 { rd.piece = rd.piece.prev; rd.offInPiece = rd.piece.off2 }
\* : [ok, r]
stepToPrev(P, r) ==
    IF r.offInPiece > 0 THEN [ ok |-> TRUE, r |-> r ]
    ELSE IF r.piece = Nil THEN [ ok |-> FALSE, r |-> r ]
    ELSE IF P[r.piece].prev = Nil
    THEN [ ok |-> FALSE, r |-> [r EXCEPT !.piece = Nil] ]
    ELSE [ ok |-> TRUE,
           r  |-> [r EXCEPT !.piece = P[r.piece].prev,
                            !.offInPiece = P[P[r.piece].prev].off2] ]

\* Reader.readRuneBackward from the label read_next_byte on, with
\* bytes[:size] = bs
RECURSIVE readNextByte(_, _, _, _)
readNextByte(B, P, r, bs) ==
    IF r.off = 0
    THEN IF Len(bs) = 0 THEN runeEOF(r)
         ELSE \* partial utf8 at end of buffer not yet implemented
              runePanic(r)
    ELSE
      LET \* bytes[:size] is bs2 now and the Reader has stepped back to s2.r
          tryDecode(bs2, s2) ==
              IF ~s2.ok THEN runePanic(s2.r)
              ELSE IF FullRune(bs2) THEN runeOf(DecodeRune(bs2), s2.r)
              ELSE \* not a full rune: read another byte and try again
                   readNextByte(B, P, s2.r, bs2)
          \* the Reader is at s1.r, in the piece it takes the byte from
          takeByte(s1) ==
              IF ~s1.ok THEN runePanic(s1.r)
              ELSE IF \/ s1.r.piece = Nil
                      \/ s1.r.offInPiece < 1
                      \/ s1.r.offInPiece > pieceLen(P, s1.r.piece)
              THEN \* index out of range
                   runePanic(s1.r)
              ELSE tryDecode(Append(bs, sliceOfPiece(B, P, s1.r.piece)[s1.r.offInPiece]),
                             stepToPrev(P, [s1.r EXCEPT !.offInPiece = @ - 1,
                                                        !.off = @ - 1]))
      IN  takeByte(stepToPrev(P, r))

\* Reader.readRuneBackward
readRuneBackward(B, P, r) == readNextByte(B, P, r, <<>>)

\* Reader.ReadRune: [ok, r, rune, size, err]
ReadRune(B, P, r) ==
    LET \* if err == nil { rd.lastRuneSize = size }
        done(res) == IF res.ok /\ res.err = "nil"
                     THEN [res EXCEPT !.r.lastRuneSize = res.size]
                     ELSE res
    IN  done(IF r.reverse THEN readRuneBackward(B, P, r) ELSE readRuneForward(B, P, r))

\* Reader.Seek(offset, whence) on a buffer of length n: [ok, r, val, err]
Seek(P, n, r, offset, whence) ==
    LET found(absoluteOff, f) ==
            IF ~f.ok THEN [ ok |-> FALSE, r |-> r, val |-> 0, err |-> "panic" ]
            ELSE [ ok  |-> TRUE, err |-> "nil", val |-> absoluteOff,
                   r   |-> [r EXCEPT !.off = absoluteOff,
                                     !.offInPiece = absoluteOff - f.pieceStart,
                                     !.piece = f.piece,
                                     !.lastRuneSize = -1] ]
        to(absoluteOff) ==
            IF absoluteOff < 0 THEN [ ok |-> TRUE, r |-> r, val |-> 0, err |-> "error" ]
            ELSE found(absoluteOff, findPiece(P, absoluteOff))
    IN  IF whence = 0 THEN to(offset)
        ELSE IF whence = 1 THEN to(r.off + offset)
        ELSE IF whence = 2 THEN to(n + offset)
        ELSE [ ok |-> FALSE, r |-> r, val |-> 0, err |-> "panic" ]

\* Reader.UnreadRune: [ok, r, err]
UnreadRune(P, n, r) ==
    IF r.lastRuneSize < 0 THEN [ ok |-> TRUE, r |-> r, err |-> "error" ]
    ELSE Seek(P, n, r,
              IF r.reverse THEN r.off + r.lastRuneSize ELSE r.off - r.lastRuneSize,
              0)

\* Reader.Reverse
Reverse(r) == [r EXCEPT !.reverse = ~r.reverse]

\* The Read calls so far are no run of Reads from NewReader on any more.
NoRead == [ from |-> -1, data |-> <<>>, err |-> "nil" ]

\* r.ReadRune(); a rune read forward before any Reverse joins log.fwd, a rune
\* read backward after the one Reverse joins log.bwd
DoReadRune ==
    /\ ~panicked
    /\ rd # <<>>
    /\ \E res \in { ReadRune(bytes, pieces, rd[1]) } :
         /\ rd' = << res.r >>
         /\ panicked' = ~res.ok
         /\ log' = [(IF log.plain /\ (rd[1].reverse <=> log.turned)
                      THEN log ELSE [NoLog EXCEPT !.plain = FALSE]) EXCEPT
                      !.ops = << [ op |-> "ReadRune", pre |-> rd[1], err |-> res.err,
                                   rune |-> res.rune, size |-> res.size ] >>,
                      !.fwd = IF ~log.plain THEN @
                              ELSE IF res.err = "nil" /\ ~rd[1].reverse
                              THEN Append(@, << res.rune, res.size >>) ELSE @,
                      !.bwd = IF ~log.plain \/ ~log.turned THEN @
                              ELSE IF res.err = "nil" /\ rd[1].reverse
                              THEN Append(@, << res.rune, res.size >>) ELSE @]
    /\ out' = NoRead
    /\ UNCHANGED << bytes, pieces, len, nextFreeObserverId, observers, lineCache,
                    lines, calls, hist, ret >>

\* r.UnreadRune()
DoUnreadRune ==
    /\ ~panicked
    /\ rd # <<>>
    /\ \E res \in { UnreadRune(pieces, len, rd[1]) } :
         /\ rd' = << res.r >>
         /\ panicked' = ~res.ok
         /\ Logged("UnreadRune", res.err)
    /\ out' = NoRead
    /\ UNCHANGED << bytes, pieces, len, nextFreeObserverId, observers, lineCache,
                    lines, calls, hist, ret >>

\* r.Seek(offset, 0), to an offset of the document or to -1
DoSeek ==
    /\ ~panicked
    /\ rd # <<>>
    /\ \E offset \in -1 .. len :
         \E res \in { Seek(pieces, len, rd[1], offset, 0) } :
             /\ rd' = << res.r >>
             /\ panicked' = ~res.ok
             /\ Logged("Seek", res.err)
    /\ out' = NoRead
    /\ UNCHANGED << bytes, pieces, len, nextFreeObserverId, observers, lineCache,
                    lines, calls, hist, ret >>

\* r.Seek(offset, whence) from the origin, from the Reader's offset or from
\* the end, to an offset of the document or to one just outside it
DoSeekFrom ==
    /\ ~panicked
    /\ rd # <<>>
    /\ \E whence \in 0 .. 2, offset \in -(len + 1) .. len + 1 :
         \E res \in { Seek(pieces, len, rd[1], offset, whence) } :
             /\ res.r.off <= len + 1
             /\ rd' = << res.r >>
             /\ panicked' = ~res.ok
             /\ log' = [NoLog EXCEPT
                          !.ops = << [ op |-> "Seek", pre |-> rd[1], err |-> res.err,
                                       offset |-> offset, whence |-> whence,
                                       val |-> res.val ] >>,
                          !.plain = FALSE]
    /\ out' = NoRead
    /\ UNCHANGED << bytes, pieces, len, nextFreeObserverId, observers, lineCache,
                    lines, calls, hist, ret >>

\* r.Reverse(); the first one after a run of forward rune reads turns the run
\* round at the offset the Reader has reached
DoReverse ==
    /\ ~panicked
    /\ rd # <<>>
    /\ rd' = << Reverse(rd[1]) >>
    /\ log' = IF log.plain /\ ~log.turned /\ ~rd[1].reverse
               THEN [log EXCEPT
                       !.ops = << [ op |-> "Reverse", pre |-> rd[1], err |-> "nil" ] >>,
                       !.turned = TRUE,
                       !.turn = rd[1].off]
               ELSE [NoLog EXCEPT
                       !.ops = << [ op |-> "Reverse", pre |-> rd[1], err |-> "nil" ] >>,
                       !.plain = FALSE]
    /\ out' = NoRead
    /\ UNCHANGED << bytes, pieces, len, nextFreeObserverId, observers, lineCache,
                    lines, calls, hist, ret, panicked >>

\* ------------------------------------------------------------------ lines

\* Largest line number asked of Line.
MaxLine == 3

\* Largest size the byte store may grow to in the runs that only append to
\* the document (Write) and ask for lines.
MaxWritten == 7

\* How far below 1 the line numbers go that a View asks of Line: PageUp
\* leaves firstLine at 0, PageDown leaves it at Lines() - height + 1, which
\* is negative when the document has fewer lines than the window.
MaxBelow == 1

\* The loop of Lines: [ok, n]
RECURSIVE countLines(_, _, _, _)
countLines(B, P, r, n) ==
    LET read(res) ==
            IF ~res.ok THEN [ ok |-> FALSE, n |-> n ]
            ELSE IF res.err # "nil" THEN [ ok |-> TRUE, n |-> n ]
            ELSE countLines(B, P, res.r, IF res.rune = 10 THEN n + 1 ELSE n)
    IN  read(ReadRune(B, P, r))

\* Buf.Lines: [ok, val, lines], lines the cached count it leaves
Lines(B, P, cached) ==
    LET counted(c) == IF ~c.ok THEN [ ok |-> FALSE, val |-> 0, lines |-> cached ]
                      ELSE [ ok |-> TRUE, val |-> c.n, lines |-> c.n ]
        from(nr) == IF ~nr.ok THEN [ ok |-> FALSE, val |-> 0, lines |-> cached ]
                    ELSE counted(countLines(B, P, nr.r, 1))
    IN  IF cached # 0 THEN [ ok |-> TRUE, val |-> cached, lines |-> cached ]
        ELSE from(NewReader(P, 0))

\* The loops of Line: [ok, done, startOfLine]; done is FALSE when a ReadRune
\* returned an error and Line returned from inside the loop.
RECURSIVE skipLines(_, _, _, _, _)
skipLines(B, P, r, startOfLine, linesToSkip) ==
    LET read(res) ==
            IF ~res.ok THEN [ ok |-> FALSE, done |-> FALSE, startOfLine |-> startOfLine ]
            ELSE IF res.err # "nil"
            THEN [ ok |-> TRUE, done |-> FALSE, startOfLine |-> startOfLine ]
            ELSE IF res.rune = 10
            THEN skipLines(B, P, res.r, res.r.off, linesToSkip - 1)
            ELSE skipLines(B, P, res.r, startOfLine, linesToSkip)
    IN  IF linesToSkip <= 0
        THEN [ ok |-> TRUE, done |-> TRUE, startOfLine |-> startOfLine ]
        ELSE read(ReadRune(B, P, r))

\* Buf.Line: [ok, val, lineCache]
Line(B, P, cache, n) ==
    LET skipped(sk) ==
            IF ~sk.ok THEN [ ok |-> FALSE, val |-> 0, lineCache |-> cache ]
            ELSE IF ~sk.done
            THEN [ ok |-> TRUE, val |-> sk.startOfLine, lineCache |-> cache ]
            ELSE IF \/ cache.line = 0
                    \/ (n < cache.line /\ n > 5)
                    \/ n - cache.line > 5
                 THEN [ ok |-> TRUE, val |-> sk.startOfLine,
                        lineCache |-> [ line |-> n, off |-> sk.startOfLine ] ]
                 ELSE [ ok |-> TRUE, val |-> sk.startOfLine, lineCache |-> cache ]
        scan(startOfLine, linesToSkip, nr) ==
            IF ~nr.ok THEN [ ok |-> FALSE, val |-> 0, lineCache |-> cache ]
            ELSE skipped(skipLines(B, P, nr.r, startOfLine, linesToSkip))
    IN  IF cache.line # 0 /\ cache.line < n
        THEN scan(cache.off, n - cache.line, NewReader(P, cache.off))
        ELSE IF cache.line = n
        THEN [ ok |-> TRUE, val |-> cache.off, lineCache |-> cache ]
        ELSE scan(0, n - 1, NewReader(P, 0))

\* The loop of PositionFromOffset: [ok, pos, err]
RECURSIVE positionFrom(_, _, _, _, _)
positionFrom(B, P, r, off, pos) ==
    LET read(res) ==
            IF ~res.ok THEN [ ok |-> FALSE, pos |-> pos, err |-> "panic" ]
            ELSE IF res.err # "nil"
            THEN [ ok |-> TRUE, pos |-> [Line |-> 0, Column |-> 0], err |-> res.err ]
            ELSE positionFrom(B, P, res.r, off,
                              IF res.rune = 10
                              THEN [ Line |-> pos.Line + 1, Column |-> 1 ]
                              ELSE [pos EXCEPT !.Column = @ + 1])
    IN  IF r.off = off THEN [ ok |-> TRUE, pos |-> pos, err |-> "nil" ]
        ELSE read(ReadRune(B, P, r))

\* Buf.PositionFromOffset: [ok, pos, err]
PositionFromOffset(B, P, off) ==
    LET from(nr) ==
            IF ~nr.ok
            THEN [ ok |-> FALSE, pos |-> [Line |-> 0, Column |-> 0], err |-> "panic" ]
            ELSE positionFrom(B, P, nr.r, off, [ Line |-> 1, Column |-> 1 ])
    IN  from(NewReader(P, 0))

\* The loop of PositionToOffset: [ok, val, err]
RECURSIVE skipRunes(_, _, _, _)
skipRunes(B, P, r, runesToSkip) ==
    LET read(res) ==
            IF ~res.ok THEN [ ok |-> FALSE, val |-> 0, err |-> "panic" ]
            ELSE IF res.err # "nil" THEN [ ok |-> TRUE, val |-> 0, err |-> res.err ]
            ELSE IF res.rune = 10 THEN [ ok |-> TRUE, val |-> 0, err |-> "error" ]
            ELSE skipRunes(B, P, res.r, runesToSkip - 1)
    IN  IF runesToSkip <= 0 THEN [ ok |-> TRUE, val |-> r.off, err |-> "nil" ]
        ELSE read(ReadRune(B, P, r))

\* Buf.PositionToOffset: [ok, val, err, lineCache]
PositionToOffset(B, P, cache, pos) ==
    LET skipped(s, c) == [ ok |-> s.ok, val |-> s.val, err |-> s.err, lineCache |-> c ]
        from(nr, c) ==
            IF ~nr.ok THEN [ ok |-> FALSE, val |-> 0, err |-> "panic", lineCache |-> c ]
            ELSE skipped(skipRunes(B, P, nr.r, pos.Column - 1), c)
        inLine(ln) ==
            IF ~ln.ok
            THEN [ ok |-> FALSE, val |-> 0, err |-> "panic", lineCache |-> ln.lineCache ]
            ELSE from(NewReader(P, ln.val), ln.lineCache)
    IN  inLine(Line(B, P, cache, pos.Line))

\* ------------------------------------------------------------------ motions

\* The runes callers search for: newline, 'b', U+00E9, and 'z', which no
\* document holds.
Needles == { 10, 98, 233, 122 }

\* A motion returns [ok, r, moved, lineCache]: the Reader and the line cache
\* as the motion leaves them, moved = what Move returned, ok = FALSE when it
\* panicked.

\* motion.RuneForward
RuneForward(B, P, cache, r) ==
    LET read(res) == [ ok |-> res.ok, r |-> res.r, moved |-> res.ok /\ res.err = "nil",
                       lineCache |-> cache ]
    IN  read(ReadRune(B, P, r))

\* motion.RuneBackward = reverse(RuneForward)
RuneBackward(B, P, cache, r) == RuneForward(B, P, cache, Reverse(r))

\* motion.RuneFindForward(needle)
RECURSIVE RuneFindForward(_, _, _, _, _)
RuneFindForward(B, P, cache, r, needle) ==
    LET read(res) ==
            IF ~res.ok
            THEN [ ok |-> FALSE, r |-> res.r, moved |-> FALSE, lineCache |-> cache ]
            ELSE IF res.err # "nil"
            THEN [ ok |-> TRUE, r |-> res.r, moved |-> FALSE, lineCache |-> cache ]
            ELSE IF needle = res.rune
            THEN [ ok |-> TRUE, r |-> res.r, moved |-> TRUE, lineCache |-> cache ]
            ELSE RuneFindForward(B, P, cache, res.r, needle)
    IN  read(ReadRune(B, P, r))

\* motion.LineForward (by = 1) and motion.LineBackward (by = -1) from the
\* result f of PositionFromOffset on
toLine(B, P, n, cache, r, f, by) ==
    LET stay(ok, c) == [ ok |-> ok, r |-> r, moved |-> FALSE, lineCache |-> c ]
        \* _, err = rd.Seek(int64(off), 0); return err == nil
        seek(sk, c) == [ ok |-> sk.ok, r |-> sk.r, moved |-> sk.ok /\ sk.err = "nil",
                        lineCache |-> c ]
        \* the second PositionToOffset, with pos.Column = 1
        again(o) ==
            IF ~o.ok THEN stay(FALSE, o.lineCache)
            ELSE IF o.err # "nil" THEN stay(TRUE, o.lineCache)
            ELSE seek(Seek(P, n, r, o.val, 0), o.lineCache)
        \* the first PositionToOffset
        tried(o, pos) ==
            IF ~o.ok THEN stay(FALSE, o.lineCache)
            ELSE IF o.err # "nil"
            THEN again(PositionToOffset(B, P, o.lineCache, [pos EXCEPT !.Column = 1]))
            ELSE seek(Seek(P, n, r, o.val, 0), o.lineCache)
        at(pos) ==
            IF by < 0 /\ pos.Line < 1 THEN stay(TRUE, cache)
            ELSE tried(PositionToOffset(B, P, cache, pos), pos)
    IN  IF ~f.ok THEN stay(FALSE, cache)
        ELSE IF f.err # "nil" THEN stay(TRUE, cache)
        ELSE at([f.pos EXCEPT !.Line = @ + by])

\* motion.LineForward
LineForward(B, P, n, cache, r) ==
    toLine(B, P, n, cache, r, PositionFromOffset(B, P, r.off), 1)

\* motion.LineBackward
LineBackward(B, P, n, cache, r) ==
    toLine(B, P, n, cache, r, PositionFromOffset(B, P, r.off), -1)

\* View.MoveCursor up to the call of Move: rd := NewReader(off) for an offset
\* of the document, then m.Move(buffer, rd), with res the result of Move
Moved(op, off, needle, nr, res) ==
    /\ rd' = << res.r >>
    /\ lineCache' = res.lineCache
    /\ panicked' = (~nr.ok \/ ~res.ok)
    /\ ret' = [ op |-> op, from |-> off, needle |-> needle, moved |-> res.moved ]
    /\ hist' = <<>>
    /\ out' = NoRead
    /\ log' = NoLog
    /\ UNCHANGED << bytes, pieces, len, nextFreeObserverId, observers, lines, calls >>

\* MoveCursor(motion.RuneBackward)
DoRuneBackward ==
    /\ ~panicked
    /\ \E off \in 0 .. len :
         \E nr \in { NewReader(pieces, off) } :
             \E res \in { IF nr.ok THEN RuneBackward(bytes, pieces, lineCache, nr.r)
                           ELSE [ ok |-> FALSE, r |-> nr.r, moved |-> FALSE,
                                  lineCache |-> lineCache ] } :
                 Moved("RuneBackward", off, 0, nr, res)

\* MoveCursor(motion.RuneFindForward(needle))
DoRuneFindForward ==
    /\ ~panicked
    /\ \E off \in 0 .. len, needle \in Needles :
         \E nr \in { NewReader(pieces, off) } :
             \E res \in { IF nr.ok
                           THEN RuneFindForward(bytes, pieces, lineCache, nr.r, needle)
                           ELSE [ ok |-> FALSE, r |-> nr.r, moved |-> FALSE,
                                  lineCache |-> lineCache ] } :
                 Moved("RuneFindForward", off, needle, nr, res)

\* MoveCursor(motion.LineForward)
DoLineForward ==
    /\ ~panicked
    /\ \E off \in 0 .. len :
         \E nr \in { NewReader(pieces, off) } :
             \E res \in { IF nr.ok THEN LineForward(bytes, pieces, len, lineCache, nr.r)
                           ELSE [ ok |-> FALSE, r |-> nr.r, moved |-> FALSE,
                                  lineCache |-> lineCache ] } :
                 Moved("LineForward", off, 0, nr, res)

\* MoveCursor(motion.LineBackward)
DoLineBackward ==
    /\ ~panicked
    /\ \E off \in 0 .. len :
         \E nr \in { NewReader(pieces, off) } :
             \E res \in { IF nr.ok THEN LineBackward(bytes, pieces, len, lineCache, nr.r)
                           ELSE [ ok |-> FALSE, r |-> nr.r, moved |-> FALSE,
                                  lineCache |-> lineCache ] } :
                 Moved("LineBackward", off, 0, nr, res)

\* b.Lines()
DoLines ==
    /\ ~panicked
    /\ \E l \in { Lines(bytes, pieces, lines) } :
         /\ lines' = l.lines
         /\ panicked' = ~l.ok
         /\ ret' = [ op |-> "Lines", val |-> l.val ]
    /\ hist' = <<>>
    /\ UNCHANGED << bytes, pieces, len, nextFreeObserverId, observers, lineCache,
                    calls, rd, out, log >>

\* b.Line(n)
DoLine ==
    /\ ~panicked
    /\ \E n \in 1 .. MaxLine :
         \E l \in { Line(bytes, pieces, lineCache, n) } :
             /\ lineCache' = l.lineCache
             /\ panicked' = ~l.ok
             /\ ret' = [ op |-> "Line", n |-> n, val |-> l.val ]
    /\ hist' = <<>>
    /\ UNCHANGED << bytes, pieces, len, nextFreeObserverId, observers, lines,
                    calls, rd, out, log >>

\* b.PositionFromOffset(off), for an offset of the document
DoPositionFromOffset ==
    /\ ~panicked
    /\ \E off \in 0 .. len :
         \E f \in { PositionFromOffset(bytes, pieces, off) } :
             /\ panicked' = ~f.ok
             /\ ret' = [ op |-> "PositionFromOffset", n |-> off, pos |-> f.pos,
                         err |-> f.err ]
    /\ hist' = <<>>
    /\ UNCHANGED << bytes, pieces, len, nextFreeObserverId, observers, lineCache,
                    lines, calls, rd, out, log >>

\* b.PositionToOffset(p), for the position p that PositionFromOffset has just
\* returned
DoPositionToOffset ==
    /\ ~panicked
    /\ ret.op = "PositionFromOffset"
    /\ ret.err = "nil"
    /\ \E o \in { PositionToOffset(bytes, pieces, lineCache, ret.pos) } :
         /\ lineCache' = o.lineCache
         /\ panicked' = ~o.ok
         /\ ret' = [ op |-> "PositionToOffset", n |-> ret.n, pos |-> ret.pos,
                     val |-> o.val, err |-> o.err ]
    /\ hist' = <<>>
    /\ UNCHANGED << bytes, pieces, len, nextFreeObserverId, observers, lines,
                    calls, rd, out, log >>

\* ------------------------------------------------------------------ specifications

\* The edit operations alone.
Next == DoInsert \/ DoDelete \/ DoWrite

Spec == Init /\ [][Next]_vars

\* The edit operations with markers registered, moved and removed.
NextMarked ==
    DoInsertMarked \/ DoDelete \/ DoWriteMarked \/ NewMarker \/ Move \/ RemoveObserver

SpecMarked == Init /\ [][NextMarked]_vars

\* The edit operations, and a Reader over the document between them.
NextReader == DoInsert \/ DoDelete \/ DoWrite \/ DoNewReader \/ DoRead

SpecReader == Init /\ [][NextReader]_vars

\* The edit operations, and the line and position queries between them.
\* View.Display after View.PageUp or View.PageDown: b.Line(v.firstLine)
\* with a firstLine below 1
DoLineOfView ==
    /\ ~panicked
    /\ \E n \in -MaxBelow .. 0 :
         \E l \in { Line(bytes, pieces, lineCache, n) } :
             /\ lineCache' = l.lineCache
             /\ panicked' = ~l.ok
             /\ ret' = [ op |-> "Line", n |-> n, val |-> l.val ]
    /\ hist' = <<>>
    /\ UNCHANGED << bytes, pieces, len, nextFreeObserverId, observers, lines,
                    calls, rd, out, log >>

\* Write(p) on a document that may grow to MaxWritten bytes
DoWriteMany == WriteUpTo(MaxWritten)

NextLines ==
    \/ DoInsert \/ DoDelete \/ DoWrite
    \/ DoLines \/ DoLine \/ DoPositionFromOffset \/ DoPositionToOffset

SpecLines == Init /\ [][NextLines]_vars

\* The edit operations, and a Reader that reads runes in both directions.
NextRunes ==
    \/ DoInsert \/ DoDelete \/ DoWrite
    \/ DoNewReader \/ DoRead \/ DoReadRune \/ DoUnreadRune \/ DoSeek \/ DoReverse

SpecRunes == Init /\ [][NextRunes]_vars

\* The edit operations with markers registered and line queries between
\* them, and edit calls whose offsets are out of range.
NextGuarded ==
    \/ DoInsertMarked \/ DoDelete \/ DoWriteMarked \/ NewMarker
    \/ DoLines \/ DoLine
    \/ DoInsertOutOfRange \/ DoDeleteOutOfRange

SpecGuarded == Init /\ [][NextGuarded]_vars

\* The edit operations, and a Reader that reads runes forward and seeks.
NextSeek ==
    \/ DoInsert \/ DoDelete \/ DoWrite
    \/ DoNewReader \/ DoReadRune \/ DoSeekFrom

SpecSeek == Init /\ [][NextSeek]_vars

\* The edit operations, and the cursor motions between them.
NextMotion ==
    \/ DoInsert \/ DoDelete \/ DoWrite
    \/ DoRuneBackward \/ DoRuneFindForward \/ DoLineForward \/ DoLineBackward

SpecMotion == Init /\ [][NextMotion]_vars

\* A document written piece after piece, and Line calls on it.
NextScan == DoWriteMany \/ DoLine

SpecScan == Init /\ [][NextScan]_vars

\* The edit operations, and the Line calls of a View between them.
NextView == DoInsert \/ DoDelete \/ DoWrite \/ DoLine \/ DoLineOfView

SpecView == Init /\ [][NextView]_vars

\* ------------------------------------------------------------------ properties

\* The latest edit call.
Last == hist[1]

\* The latest call was a valid Insert of a non-empty string.
Inserted == hist # <<>> /\ Last.op = "Insert" /\ Last.a2 # <<>>

\* The latest call was a valid Delete of a non-empty range.
Deleted == hist # <<>> /\ Last.op = "Delete" /\ Last.a1 < Last.a2

\* The document as String returns it now.
Doc == String(bytes, pieces)

\* old[0:off] ++ s ++ old[off:]
InsertInto(old, off, s) == SubSeq(old, 1, off) \o s \o SubSeq(old, off + 1, Len(old))

\* old[0:off1] ++ old[off2:]
Cut(old, off1, off2) == SubSeq(old, 1, off1) \o SubSeq(old, off2 + 1, Len(old))

\* The sum of the lengths of the pieces from p on, in list order: [ok, n].
RECURSIVE sumOfPieces(_, _)
sumOfPieces(P, p) ==
    IF p = Sentinel THEN [ ok |-> TRUE, n |-> 0 ]
    ELSE IF p = Nil THEN [ ok |-> FALSE, n |-> 0 ]
    ELSE LET rest == sumOfPieces(P, P[p].next)
         IN  [ ok |-> rest.ok, n |-> pieceLen(P, p) + rest.n ]

\* C1: after Insert(off, s) with 0 <= off <= Len() and s non-empty, String()
\* is old[0:off] ++ s ++ old[off:] and Len() is the old Len() plus |s|,
\* wherever off falls.
C1_InsertResult ==
    (Inserted /\ Last.pre.str.ok) =>
        /\ Last.ok
        /\ Doc.ok
        /\ Doc.s = InsertInto(Last.pre.str.s, Last.a1, Last.a2)
        /\ len = Last.pre.len + Len(Last.a2)

\* What holds of Insert: the same, for an offset at which a piece of the old
\* list starts, or the end of the document.
InsertAtPieceStartResult ==
    (/\ Inserted
     /\ Last.pre.str.ok
     /\ findPiece(Last.pre.pieces, Last.a1).pieceStart = Last.a1) =>
        /\ Last.ok
        /\ Doc.ok
        /\ Doc.s = InsertInto(Last.pre.str.s, Last.a1, Last.a2)
        /\ len = Last.pre.len + Len(Last.a2)

\* C2: after Delete(off1, off2) with 0 <= off1 < off2 <= Len(), on every
\* buffer valid edits lead to, String() is old[0:off1] ++ old[off2:] and
\* Len() is the old Len() minus (off2 - off1).
C2_DeleteResult ==
    Deleted =>
        /\ Last.pre.str.ok
        /\ Last.ok
        /\ Doc.ok
        /\ Doc.s = Cut(Last.pre.str.s, Last.a1, Last.a2)
        /\ len = Last.pre.len - (Last.a2 - Last.a1)

\* What holds of Delete: the same, on a buffer whose piece list still closes
\* at the sentinel.
DeleteOfClosedListResult ==
    (Deleted /\ Last.pre.str.ok) =>
        /\ Last.ok
        /\ Doc.ok
        /\ Doc.s = Cut(Last.pre.str.s, Last.a1, Last.a2)
        /\ len = Last.pre.len - (Last.a2 - Last.a1)

\* C3: after any valid Insert, Delete and Write calls, Len() is the sum of
\* the lengths of the pieces of the list, which is the number of bytes of
\* String().
C3_LenIsSumOfPieces ==
    ~panicked =>
        LET sum == sumOfPieces(pieces, pieces[Sentinel].next)
        IN  /\ sum.ok /\ len = sum.n
            /\ Doc.ok /\ len = Len(Doc.s)

\* C4: Insert(a, s) followed by Delete(a, a + |s|) leaves Len() and String()
\* as they were before the Insert.
C4_InsertDeleteRestores ==
    (Len(hist) = 2 /\ hist[2].pre.str.ok) =>
        /\ Last.ok
        /\ Doc.ok
        /\ Doc.s = hist[2].pre.str.s
        /\ len = hist[2].pre.len

\* C5: Read calls on NewReader(0), repeated until one signals EOF, return
\* together exactly the bytes of String(), Len() of them, and leave the
\* reader's Offset() at Len().
C5_ReadReturnsString ==
    (rd # <<>> /\ out.from = 0) =>
        /\ out.err # "panic"
        /\ out.err = "EOF" =>
             /\ Doc.ok
             /\ out.data = Doc.s
             /\ Len(out.data) = len
             /\ rd[1].off = len

\* What holds of Read: the same, on a buffer whose piece list closes at the
\* sentinel.
ReadOfClosedListReturnsString ==
    (rd # <<>> /\ out.from = 0 /\ Doc.ok) =>
        /\ out.err # "panic"
        /\ out.err = "EOF" =>
             /\ out.data = Doc.s
             /\ Len(out.data) = len
             /\ rd[1].off = len

\* C6: a valid non-empty Insert(off, s) moves every registered marker at or
\* after off by |s| and leaves the markers before off alone; a valid
\* non-empty Delete(off1, off2) moves every marker at or after off2 back by
\* off2 - off1 and leaves the markers at or before off1 alone.
C6_MarkerPolicy ==
    (Inserted \/ Deleted) =>
        \A id \in DOMAIN Last.pre.observers :
            /\ id \in DOMAIN observers
            /\ LET old == Last.pre.observers[id]
                   new == observers[id]
               IN  IF Last.op = "Insert"
                   THEN /\ Last.a1 <= old => new = old + Len(Last.a2)
                        /\ Last.a1 > old => new = old
                   ELSE /\ Last.a2 <= old => new = old - (Last.a2 - Last.a1)
                        /\ old <= Last.a1 => new = old

\* An Insert at the very offset of a marker has moved the marker.
C6_Witness ==
    /\ Inserted /\ Last.ok
    /\ \E id \in DOMAIN Last.pre.observers :
         /\ Last.pre.observers[id] = Last.a1
         /\ observers[id] = Last.a1 + Len(Last.a2)

\* C7: a marker created at a valid offset and moved only to valid offsets
\* stays within 0 .. Len() over all valid Insert and Delete calls.
C7_MarkerInRange ==
    ~panicked =>
        \A id \in DOMAIN observers : 0 <= observers[id] /\ observers[id] <= len

\* C8: a Delete(off1, off2) around a marker (off1 < offset < off2) leaves the
\* marker at off1.
C8_MarkerClampedToOff1 ==
    Deleted =>
        \A id \in DOMAIN Last.pre.observers :
            (Last.a1 < Last.pre.observers[id] /\ Last.pre.observers[id] < Last.a2)
                => observers[id] = Last.a1

\* C9: Insert(a, s) followed by Delete(a, a + |s|) returns every marker that
\* was at a valid offset m to m.
C9_MarkerRoundTrip ==
    Len(hist) = 2 =>
        \A id \in DOMAIN hist[2].pre.observers :
            LET m == hist[2].pre.observers[id]
            IN  (0 <= m /\ m <= hist[2].pre.len) => observers[id] = m

\* The Insert had moved a marker, and the Delete has brought it back.
C9_Witness ==
    /\ Len(hist) = 2 /\ Last.ok
    /\ \E id \in DOMAIN hist[2].pre.observers :
         /\ Last.pre.observers[id] # hist[2].pre.observers[id]
         /\ observers[id] = hist[2].pre.observers[id]

\* C10: a valid non-empty Insert or Delete calls every registered observer
\* back exactly once, with the arguments of the edit, and what the observer
\* finds in the buffer then (Len(), the piece list, String()) is still the
\* document from before the edit.
C10_NotifiedBeforeMutation ==
    (Inserted \/ Deleted) =>
        \A id \in DOMAIN Last.pre.observers :
            calls[id] =
              << [ cb   |-> IF Last.op = "Insert" THEN "OnBufInsert" ELSE "OnBufDelete",
                   a1   |-> Last.a1,
                   a2   |-> Last.a2,
                   seen |-> [ len |-> Last.pre.len, str |-> Last.pre.str,
                              pieces |-> Last.pre.pieces ] ] >>

\* An observer was called back by an Insert that then changed the document.
C10_Witness ==
    /\ Inserted /\ Last.ok
    /\ DOMAIN Last.pre.observers # {}
    /\ len # Last.pre.len
    /\ \A id \in DOMAIN Last.pre.observers : Len(calls[id]) = 1

\* The number of newline bytes of s.
Newlines(s) == Cardinality({ i \in 1 .. Len(s) : s[i] = 10 })

\* The number of lines of a document s.
LinesOf(s) == 1 + Newlines(s)

\* The offset of the first byte of line n of s, for 1 <= n <= LinesOf(s): 0
\* or the offset after the (n-1)-th newline.
LineStart(s, n) ==
    IF n = 1 THEN 0
    ELSE CHOOSE i \in 1 .. Len(s) : s[i] = 10 /\ Newlines(SubSeq(s, 1, i)) = n - 1

\* The offsets of s at which a rune starts or s ends, from offset i on.
RECURSIVE RuneStarts(_, _)
RuneStarts(s, i) ==
    IF i >= Len(s) THEN {i}
    ELSE {i} \cup RuneStarts(s, i + DecodeRune(SubSeq(s, i + 1, Len(s))).size)

\* The list of pieces is empty or a single piece.
OnePiece == pieces[Sentinel].next # Nil /\ pieces[pieces[Sentinel].next].next = Sentinel

\* C11: after any valid edits and Lines() / Line() calls, Lines() returns 1
\* for the empty document and otherwise 1 plus the number of newline bytes of
\* String().
C11_LinesCountsNewlines ==
    ret.op = "Lines" =>
        /\ ~panicked
        /\ Doc.ok
        /\ ret.val = (IF Doc.s = <<>> THEN 1 ELSE 1 + Newlines(Doc.s))

\* What holds of Lines: the same, on a document of at most one piece.
LinesOfOnePiece ==
    (ret.op = "Lines" /\ OnePiece) =>
        /\ ~panicked
        /\ ret.val = (IF Doc.s = <<>> THEN 1 ELSE 1 + Newlines(Doc.s))

\* C12: after any valid edits and earlier Line() calls, Line(n) for a line n
\* of the document returns 0 when n = 1 and otherwise the offset of the byte
\* after the (n-1)-th newline of String().
C12_LineStartsAfterNewline ==
    (ret.op = "Line" /\ Doc.ok /\ ret.n <= LinesOf(Doc.s)) =>
        /\ ~panicked
        /\ ret.val = LineStart(Doc.s, ret.n)

\* What holds of Line: the same, on a document of at most one piece.
LineOfOnePiece ==
    (ret.op = "Line" /\ OnePiece /\ ret.n <= LinesOf(Doc.s)) =>
        /\ ~panicked
        /\ ret.val = LineStart(Doc.s, ret.n)

\* C13: Line(n) for n greater than the number of lines of the document
\* returns Len().
C13_LineBeyondEndIsLen ==
    (ret.op = "Line" /\ Doc.ok /\ ret.n > LinesOf(Doc.s)) =>
        /\ ~panicked
        /\ ret.val = len

\* What holds of Line beyond the last line, on a document of at most one
\* piece: it returns the offset at which the last line starts.
LineBeyondEndOfOnePiece ==
    (ret.op = "Line" /\ OnePiece /\ ret.n > LinesOf(Doc.s)) =>
        /\ ~panicked
        /\ ret.val = LineStart(Doc.s, LinesOf(Doc.s))

\* C14: for every offset o of the document on a rune boundary,
\* PositionFromOffset(o) succeeds with a position p, and PositionToOffset(p)
\* succeeds and returns o.
C14_PositionRoundTrip ==
    (Doc.ok /\ ret.op \in {"PositionFromOffset", "PositionToOffset"}
            /\ ret.n \in RuneStarts(Doc.s, 0)) =>
        /\ ~panicked
        /\ ret.err = "nil"
        /\ ret.op = "PositionToOffset" => ret.val = ret.n

\* What holds of the two translations: the same, on a document of at most
\* one piece.
PositionRoundTripOfOnePiece ==
    (OnePiece /\ ret.op \in {"PositionFromOffset", "PositionToOffset"}
              /\ ret.n \in RuneStarts(Doc.s, 0)) =>
        /\ ~panicked
        /\ ret.err = "nil"
        /\ ret.op = "PositionToOffset" => ret.val = ret.n

\* s is well-formed UTF-8 from offset i on: no rune of it decodes as an error.
RECURSIVE WellFormed(_, _)
WellFormed(s, i) ==
    IF i >= Len(s) THEN TRUE
    ELSE LET d == DecodeRune(SubSeq(s, i + 1, Len(s)))
         IN  d.rune # RuneError /\ WellFormed(s, i + d.size)

\* The latest call on the Reader.
LastOp == log.ops[1]

\* The latest call on the Reader was a ReadRune.
RuneRead == rd # <<>> /\ log.ops # <<>> /\ LastOp.op = "ReadRune"

\* The latest call on the Reader was an UnreadRune directly after a
\* successful ReadRune.
Unread ==
    /\ rd # <<>> /\ Len(log.ops) = 2
    /\ LastOp.op = "UnreadRune"
    /\ log.ops[2].op = "ReadRune" /\ log.ops[2].err = "nil"

\* The latest call on the Reader was an UnreadRune, and the call before it
\* was no successful ReadRune.
UnreadOutOfPlace ==
    /\ rd # <<>> /\ log.ops # <<>>
    /\ LastOp.op = "UnreadRune"
    /\ Len(log.ops) = 2 => (log.ops[2].op # "ReadRune" \/ log.ops[2].err # "nil")

\* The runes read forward from a, then backward from the offset b the Reader
\* had reached, on a well-formed document with a and b on rune boundaries.
TurnedRound ==
    /\ rd # <<>> /\ log.plain /\ log.turned
    /\ Doc.ok /\ WellFormed(Doc.s, 0)
    /\ log.from \in RuneStarts(Doc.s, 0)
    /\ log.turn \in RuneStarts(Doc.s, 0)

\* C15: the runes read forward from a to b and the runes then read backward
\* from b are the same runes with the same sizes, in reverse order, and bring
\* the Reader back to a; a reversed ReadRune at offset 0 returns EOF.
C15_BackwardMirrorsForward ==
    /\ TurnedRound =>
         /\ ~panicked
         /\ \A i \in 1 .. Min(Len(log.bwd), Len(log.fwd)) :
              log.bwd[i] = log.fwd[Len(log.fwd) + 1 - i]
         /\ Len(log.bwd) = Len(log.fwd) => rd[1].off = log.from
    /\ (RuneRead /\ LastOp.pre.reverse /\ LastOp.pre.off = 0) => LastOp.err = "EOF"

\* What holds of the two directions: the same, on a document of one piece
\* that lies at the start of the byte store and whose bytes are all ASCII.
BackwardMirrorsForwardInASCIIPiece ==
    (/\ TurnedRound /\ OnePiece
     /\ pieces[pieces[Sentinel].next].off1 = 0
     /\ \A i \in 1 .. Len(Doc.s) : Doc.s[i] < 128) =>
         /\ ~panicked
         /\ \A i \in 1 .. Min(Len(log.bwd), Len(log.fwd)) :
              log.bwd[i] = log.fwd[Len(log.fwd) + 1 - i]
         /\ Len(log.bwd) = Len(log.fwd) => rd[1].off = log.from

\* C16: a successful forward ReadRune returns the rune encoded at the
\* Reader's offset with its size, and advances Offset() by exactly that size.
C16_ReadRuneAdvancesBySize ==
    (RuneRead /\ ~LastOp.pre.reverse /\ LastOp.err = "nil" /\ Doc.ok) =>
        LET d == DecodeRune(SubSeq(Doc.s, LastOp.pre.off + 1, Len(Doc.s)))
        IN  /\ LastOp.rune = d.rune
            /\ LastOp.size = d.size
            /\ rd[1].off = LastOp.pre.off + LastOp.size

\* What holds of the forward ReadRune: the same, as long as the Reader is
\* not at the end of a piece other than the last (the two decode paths
\* inside a piece, and the staging read over the last bytes of the list).
ReadRuneInsidePieceAdvancesBySize ==
    (/\ RuneRead /\ ~LastOp.pre.reverse /\ LastOp.err = "nil" /\ Doc.ok
     /\ LastOp.pre.offInPiece < pieceLen(pieces, LastOp.pre.piece)
     /\ FullRune(SubSeq(sliceOfPiece(bytes, pieces, LastOp.pre.piece),
                        LastOp.pre.offInPiece + 1,
                        pieceLen(pieces, LastOp.pre.piece)))) =>
        LET d == DecodeRune(SubSeq(Doc.s, LastOp.pre.off + 1, Len(Doc.s)))
        IN  /\ LastOp.rune = d.rune
            /\ LastOp.size = d.size
            /\ rd[1].off = LastOp.pre.off + LastOp.size

\* C17: a successful ReadRune directly followed by UnreadRune leaves the
\* Reader's Offset() where it was before the ReadRune, and the next ReadRune
\* returns the same rune and size again.
C17_UnreadRuneRestores ==
    (Unread /\ Doc.ok) =>
        /\ ~panicked
        /\ LastOp.err = "nil"
        /\ rd[1].off = log.ops[2].pre.off
        /\ \E again \in { ReadRune(bytes, pieces, rd[1]) } :
             /\ again.err = "nil"
             /\ again.rune = log.ops[2].rune
             /\ again.size = log.ops[2].size

\* What holds of UnreadRune: after a ReadRune of a reversed Reader that moved
\* the Reader by the size it returned, UnreadRune succeeds and the Reader's
\* offset is the one from before the ReadRune.
UnreadRuneRestoresReversed ==
    (/\ Unread /\ Doc.ok /\ LastOp.pre.reverse /\ log.ops[2].pre.reverse
     /\ log.ops[2].pre.off - LastOp.pre.off = log.ops[2].size) =>
        /\ ~panicked
        /\ LastOp.err = "nil"
        /\ rd[1].off = log.ops[2].pre.off

\* C18: UnreadRune fails and leaves the Reader as it is whenever the call
\* before it was no successful ReadRune: directly after NewReader, after
\* Seek, Read, Reverse, UnreadRune, or a ReadRune that returned an error.
C18_UnreadRuneNeedsReadRune ==
    UnreadOutOfPlace =>
        /\ LastOp.err = "error"
        /\ rd[1] = LastOp.pre

\* What holds of UnreadRune out of place: it fails after NewReader, after a
\* Seek that succeeded, after a Read that filled its destination, and after
\* another UnreadRune that succeeded.
UnreadRuneAfterResetFails ==
    (/\ UnreadOutOfPlace
     /\ Len(log.ops) = 2 =>
          \/ log.ops[2].op = "Seek" /\ log.ops[2].err = "nil"
          \/ log.ops[2].op = "Read" /\ log.ops[2].err = "nil"
          \/ log.ops[2].op = "UnreadRune" /\ log.ops[2].err = "nil") =>
        /\ LastOp.err = "error"
        /\ rd[1] = LastOp.pre

\* The latest call on the buffer was an edit, and it had these arguments.
JustCalled(op) == hist # <<>> /\ ret = NoQuery /\ Last.op = op

\* The latest call on the buffer was an Insert or a Delete with an offset
\* out of range.
OutOfRange ==
    \/ JustCalled("Insert") /\ (Last.a1 < 0 \/ Last.a1 > Last.pre.len)
    \/ JustCalled("Delete") /\ (Last.a1 < 0 \/ Last.a1 > Last.a2 \/ Last.a2 > Last.pre.len)

\* The latest call on the buffer was an Insert of the empty string or a
\* Delete of an empty range, at an offset of the document.
NoOp ==
    \/ JustCalled("Insert") /\ Last.a2 = <<>> /\ Last.a1 \in 0 .. Last.pre.len
    \/ JustCalled("Delete") /\ Last.a1 = Last.a2 /\ Last.a1 \in 0 .. Last.pre.len

\* The latest edit call called no observer back and left the buffer as it
\* found it: the piece list, the byte store, Len(), the line cache, the
\* cached line count and the offsets of the markers.
Untouched ==
    /\ \A id \in DOMAIN calls : calls[id] = <<>>
    /\ pieces = Last.pre.pieces
    /\ bytes = Last.pre.bytes
    /\ len = Last.pre.len
    /\ lineCache = Last.pre.lineCache
    /\ lines = Last.pre.lines
    /\ observers = Last.pre.observers

\* C19: an Insert with off < 0 or off > Len(), and a Delete with off1 < 0,
\* off1 > off2 or off2 > Len(), panics, and it does so before any observer is
\* called back and with the piece list, the byte store, Len(), the line cache,
\* the cached line count and all marker offsets unchanged.
C19_OutOfRangePanicsUntouched == OutOfRange => (panicked /\ ~Last.ok /\ Untouched)

\* An out-of-range Delete has just panicked on a non-empty buffer that had a
\* marker registered, a line cached and its lines counted.
C19_Witness ==
    /\ OutOfRange /\ panicked
    /\ Last.op = "Delete"
    /\ Last.pre.len > 0
    /\ Last.pre.observers # <<>>
    /\ Last.pre.lineCache.line > 0
    /\ Last.pre.lines > 0

\* C20: Insert(off, empty) and Delete(off, off) at an offset of the document
\* change nothing: no observer is called back, the piece list, the byte store,
\* Len() and the marker offsets are unchanged, and the line cache and the
\* cached line count are not invalidated.
C20_NoOpChangesNothing == NoOp => (~panicked /\ Last.ok /\ Untouched)

\* An Insert of the empty string has just returned on a non-empty buffer that
\* had a marker registered, a line cached and its lines counted.
C20_Witness ==
    /\ NoOp /\ ~panicked
    /\ Last.op = "Insert"
    /\ Last.pre.len > 0
    /\ Last.pre.observers # <<>>
    /\ Last.pre.lineCache.line > 0
    /\ Last.pre.lines > 0

\* The pieces of the list: those met from p on by following next, up to the
\* sentinel or to a nil pointer.
RECURSIVE listFrom(_, _)
listFrom(P, p) ==
    IF p = Sentinel \/ p = Nil \/ p \notin DOMAIN P THEN {}
    ELSE {p} \cup listFrom(P, P[p].next)

\* The non-sentinel pieces linked into the list of the buffer.
Linked == listFrom(pieces, pieces[Sentinel].next)

\* C27: no piece linked into the list has length zero: off1 < off2 for every
\* one of them, the halves that Insert and Delete split off included.
C27_NoEmptyPiece == \A p \in Linked : pieces[p].off1 < pieces[p].off2

\* A Delete has just returned that split a piece of the list and kept its
\* left half.
C27_Witness ==
    /\ Deleted /\ ~panicked
    /\ \E p \in Linked :
         \E q \in DOMAIN Last.pre.pieces \ {Sentinel} :
             /\ Last.pre.pieces[q].off1 = pieces[p].off1
             /\ Last.pre.pieces[q].off2 > pieces[p].off2

\* C28: the list is a circular doubly linked list through the sentinel:
\* next leads from the sentinel back to the sentinel, p.next.prev = p and
\* p.prev.next = p for every piece on the way and for the sentinel, and
\* sentinel.next = sentinel exactly when Len() = 0.
C28_ListIsCircular ==
    ~panicked =>
        /\ Doc.ok
        /\ \A p \in Linked \cup {Sentinel} :
             /\ pieces[p].next \in DOMAIN pieces
             /\ pieces[p].prev \in DOMAIN pieces
             /\ pieces[pieces[p].next].prev = p
             /\ pieces[pieces[p].prev].next = p
        /\ (pieces[Sentinel].next = Sentinel) <=> (len = 0)

\* What holds of the list: whenever next leads from the sentinel back to the
\* sentinel, the prev pointers mirror the next pointers and the list is empty
\* exactly when Len() = 0.
ClosedListIsCircular ==
    (~panicked /\ Doc.ok) =>
        /\ \A p \in Linked \cup {Sentinel} :
             /\ pieces[p].next \in DOMAIN pieces
             /\ pieces[p].prev \in DOMAIN pieces
             /\ pieces[pieces[p].next].prev = p
             /\ pieces[pieces[p].prev].next = p
        /\ (pieces[Sentinel].next = Sentinel) <=> (len = 0)

\* C29: the byte store is append-only: a non-empty Insert(off, s) appends the
\* bytes of s to the store and changes no earlier byte, Delete leaves the
\* store as it is, and every piece lies within the store.
C29_StoreIsAppendOnly ==
    /\ Inserted => bytes = Last.pre.bytes \o Last.a2
    /\ Deleted => bytes = Last.pre.bytes
    /\ \A p \in DOMAIN pieces :
         0 <= pieces[p].off1 /\ pieces[p].off1 <= pieces[p].off2
                             /\ pieces[p].off2 <= Len(bytes)

\* An Insert before the end of a non-empty document has just returned.
C29_Witness ==
    /\ Inserted /\ ~panicked
    /\ Last.pre.bytes # <<>>
    /\ Last.a1 < Last.pre.len

\* The bytes of s before offset o end in no complete rune: however many of
\* them are taken, down to the start of s, they are the beginning of a longer
\* UTF-8 sequence.
StartsShort(s, o) ==
    /\ 1 <= o /\ o <= Len(s)
    /\ \A k \in 1 .. o : ~FullRune(SubSeq(s, o - k + 1, o))

\* C25: a ReadRune of a reversed Reader that reaches the start of the
\* document before it has a complete rune returns an error to its caller; it
\* does not panic.
C25_ShortRuneAtStartIsAnError ==
    (RuneRead /\ LastOp.pre.reverse /\ Doc.ok /\ StartsShort(Doc.s, LastOp.pre.off)) =>
        (~panicked /\ LastOp.err \in {"EOF", "error"})

\* The latest call on the Reader was a Seek(offset, whence).
Sought == rd # <<>> /\ log.ops # <<>> /\ LastOp.op = "Seek"

\* The absolute offset the latest Seek asked for.
SoughtOffset ==
    IF LastOp.whence = 0 THEN LastOp.offset
    ELSE IF LastOp.whence = 1 THEN LastOp.pre.off + LastOp.offset
    ELSE len + LastOp.offset

\* What C26 says of the latest Seek.
SeekDone ==
    IF SoughtOffset < 0
    THEN /\ ~panicked
         /\ LastOp.err = "error"
         /\ rd[1] = LastOp.pre
    ELSE /\ ~panicked
         /\ LastOp.err = "nil"
         /\ LastOp.val = SoughtOffset
         /\ rd[1].off = SoughtOffset
         /\ rd[1].lastRuneSize = -1

\* C26: Seek(offset, whence) with whence 0, 1 or 2 sets Offset() to offset,
\* to the current offset + offset or to Len() + offset and returns it; when
\* that offset is negative it returns an error and leaves the Reader (offset,
\* piece, offset in the piece, size of the last rune) as it is; a Seek that
\* succeeds forgets the size of the last rune.
C26_SeekThreeModes == Sought => SeekDone

\* What holds of Seek: the same, on every buffer whose list closes at the
\* sentinel.
SeekOfClosedList == (Sought /\ Doc.ok) => SeekDone

\* The line cache is invalid, or the line it names starts at its offset in
\* the document s.
CacheAccurate(s) ==
    \/ lineCache.line = 0
    \/ /\ lineCache.line <= LinesOf(s)
       /\ lineCache.off = LineStart(s, lineCache.line)

\* C30: the line cache is invalid (line = 0) or accurate: the line it names
\* starts at the cached offset in the current document; every non-empty
\* Insert or Delete leaves it invalid.
C30_LineCacheAccurate ==
    /\ (~panicked /\ Doc.ok) => CacheAccurate(Doc.s)
    /\ (Inserted \/ Deleted) => lineCache.line = 0

\* What holds of the line cache: the same, on a document of one piece.
LineCacheOfOnePiece ==
    /\ (~panicked /\ Doc.ok /\ OnePiece) => CacheAccurate(Doc.s)
    /\ (Inserted \/ Deleted) => lineCache.line = 0

\* The latest call was the motion op, from a fresh Reader at a rune boundary
\* of a well-formed document.
JustMoved(op) ==
    /\ ret.op = op
    /\ Doc.ok /\ WellFormed(Doc.s, 0)
    /\ ret.from \in RuneStarts(Doc.s, 0)

\* The offset where the rune that ends at offset o > 0 of s starts.
RuneStartBefore(s, o) ==
    CHOOSE x \in RuneStarts(s, 0) : x < o /\ \A y \in RuneStarts(s, 0) : y < o => y <= x

\* C21: RuneBackward on a fresh Reader at offset o returns false when o = 0,
\* and otherwise returns true and leaves the Reader at the start of the rune
\* that ends at o.
C21_RuneBackwardToRuneStart ==
    JustMoved("RuneBackward") =>
        /\ ~panicked
        /\ IF ret.from = 0 THEN ~ret.moved
           ELSE ret.moved /\ rd[1].off = RuneStartBefore(Doc.s, ret.from)

\* What holds of RuneBackward: the same, on a document of one piece that lies
\* at the start of the byte store and whose bytes are all ASCII.
RuneBackwardInASCIIPiece ==
    (/\ JustMoved("RuneBackward") /\ OnePiece
     /\ pieces[pieces[Sentinel].next].off1 = 0
     /\ \A i \in 1 .. Len(Doc.s) : Doc.s[i] < 128) =>
        /\ ~panicked
        /\ ret.from > 0 => (ret.moved /\ rd[1].off = ret.from - 1)

\* The offset where line n of s ends: at its newline, or at the end of s.
LineEnd(s, n) == IF n < LinesOf(s) THEN LineStart(s, n + 1) - 1 ELSE Len(s)

\* The offsets of the columns of line n of s: where its runes start, and
\* where it ends.
Columns(s, n) == { x \in RuneStarts(s, LineStart(s, n)) : x <= LineEnd(s, n) }

\* The line of offset o of s.
LineAt(s, o) == 1 + Newlines(SubSeq(s, 1, o))

\* The column of offset o of s.
ColumnAt(s, o) == 1 + Cardinality({ x \in Columns(s, LineAt(s, o)) : x < o })

\* The offset of column c of line n of s if the line has that column, and
\* the start of the line if not.
ColumnOrStart(s, n, c) ==
    IF c <= Cardinality(Columns(s, n))
    THEN CHOOSE x \in Columns(s, n) : Cardinality({ y \in Columns(s, n) : y < x }) = c - 1
    ELSE LineStart(s, n)

\* The Reader is where a line motion from offset o of s to line n leaves it.
MovedToLine(s, o, n) ==
    /\ ~panicked /\ ret.moved
    /\ rd[1].off = ColumnOrStart(s, n, ColumnAt(s, o))

\* C22: LineForward on a Reader at (line l, column c) returns true and leaves
\* the Reader at (l+1, c), or at the start of line l+1 if that line has no
\* column c; on the last line it returns false.
C22_LineForwardKeepsColumn ==
    JustMoved("LineForward") =>
        IF LineAt(Doc.s, ret.from) < LinesOf(Doc.s)
        THEN MovedToLine(Doc.s, ret.from, LineAt(Doc.s, ret.from) + 1)
        ELSE ~panicked /\ ~ret.moved

\* What holds of LineForward: on a document of one piece it does what C22 says
\* when there is a next line, and on the last line it returns true and leaves
\* the Reader where it was.
LineForwardOfOnePiece ==
    (JustMoved("LineForward") /\ OnePiece) =>
        IF LineAt(Doc.s, ret.from) < LinesOf(Doc.s)
        THEN MovedToLine(Doc.s, ret.from, LineAt(Doc.s, ret.from) + 1)
        ELSE ~panicked /\ ret.moved /\ rd[1].off = ret.from

\* C23: LineBackward on a Reader at (line l, column c) returns false and does
\* not move the Reader when l = 1; otherwise it returns true and leaves the
\* Reader at (l-1, c), or at the start of line l-1 if that line has no
\* column c.
C23_LineBackwardKeepsColumn ==
    JustMoved("LineBackward") =>
        IF LineAt(Doc.s, ret.from) > 1
        THEN MovedToLine(Doc.s, ret.from, LineAt(Doc.s, ret.from) - 1)
        ELSE ~panicked /\ ~ret.moved /\ rd[1].off = ret.from

\* What holds of LineBackward: the same, on a document of one piece.
LineBackwardOfOnePiece == (JustMoved("LineBackward") /\ OnePiece) => C23_LineBackwardKeepsColumn

\* The offsets from o on where the rune needle starts in s.
Occurrences(s, o, needle) ==
    { x \in RuneStarts(s, o) :
        x < Len(s) /\ DecodeRune(SubSeq(s, x + 1, Len(s))).rune = needle }

\* What C24 says of a RuneFindForward that has just returned.
Found ==
    LET at == Occurrences(Doc.s, ret.from, ret.needle)
    IN  /\ ~panicked
        /\ ret.moved <=> at # {}
        /\ at # {} =>
             \E x \in at :
                 /\ \A y \in at : x <= y
                 /\ rd[1].off = x + DecodeRune(SubSeq(Doc.s, x + 1, Len(Doc.s))).size

\* C24: RuneFindForward(needle) on a Reader at offset o returns true exactly
\* when needle occurs at an offset >= o, and then leaves the Reader directly
\* after the first such occurrence.
C24_RuneFindForwardFindsFirst == JustMoved("RuneFindForward") => Found

\* What holds of RuneFindForward: the same, on a document of one piece.
RuneFindForwardOfOnePiece == (JustMoved("RuneFindForward") /\ OnePiece) => Found

\* Line(n) on the buffer as it is returns what Line(n) returns on the same
\* buffer with an invalid line cache: the same offset, or a panic in both.
Transparent(n) ==
    LET same(c, u) == c.ok = u.ok /\ (c.ok => c.val = u.val)
    IN  same(Line(bytes, pieces, lineCache, n),
             Line(bytes, pieces, [lineCache EXCEPT !.line = 0], n))

\* C31: the line cache is transparent: in every state of the buffer and for
\* every n >= 1, Line(n) returns what a scan from offset 0 with an invalid
\* cache returns, whichever Line calls were made since the last edit.
C31_LineCacheIsTransparent ==
    ~panicked => \A n \in 1 .. MaxLine : Transparent(n)

\* What holds of the line cache: it is transparent on a document of one
\* piece, as long as every line number asked of Line was 1 or more.
LineCacheOfOnePieceIsTransparent ==
    (~panicked /\ OnePiece /\ lineCache.line >= 0)
        => \A n \in 1 .. MaxLine : Transparent(n)

\* C32: Line(n) returns an offset of the document, 0 <= offset <= Len(), for
\* every integer n; for n <= 0 it returns 0, never an offset that an earlier
\* document left in the cache.
C32_LineStaysInDocument ==
    (ret.op = "Line" /\ ~panicked) =>
        /\ 0 <= ret.val /\ ret.val <= len
        /\ ret.n <= 0 => ret.val = 0

\* What holds of Line: for n >= 1 it returns an offset of the document.
LineFromOneStaysInDocument ==
    (ret.op = "Line" /\ ~panicked /\ ret.n >= 1) =>
        (0 <= ret.val /\ ret.val <= len)

\* The offset of the document where piece q starts, counted from piece p,
\* which starts at pieceStart; -1 if next does not lead from p to q. The
\* sentinel, met at the end of the list, starts at Len().
RECURSIVE startFrom(_, _, _, _)
startFrom(P, p, pieceStart, q) ==
    IF p = q THEN pieceStart
    ELSE IF p = Sentinel \/ p = Nil \/ p \notin DOMAIN P THEN -1
    ELSE startFrom(P, P[p].next, pieceStart + pieceLen(P, p), q)

\* The Reader r is at an offset of the document, inside its current piece or
\* at one of its ends, and that is where its offset says it is. On the
\* sentinel it is at offset 0 or at Len().
Consistent(r) ==
    /\ 0 <= r.off /\ r.off <= len
    /\ r.piece \in DOMAIN pieces
    /\ 0 <= r.offInPiece /\ r.offInPiece <= pieceLen(pieces, r.piece)
    /\ IF r.piece = Sentinel
       THEN r.off = 0 \/ r.off = len
       ELSE r.off = startFrom(pieces, pieces[Sentinel].next, 0, r.piece) + r.offInPiece

\* C33: a Reader made by NewReader(o) or placed by Seek at 0 <= o <= Len(), on
\* a buffer not edited since, is consistent after every Read, ReadRune (in
\* either direction), Reverse and UnreadRune: 0 <= Offset() <= Len(),
\* 0 <= offInPiece <= length of its piece, and Offset() is the start of its
\* piece plus offInPiece.
C33_ReaderIsConsistent == (rd # <<>> /\ ~panicked) => Consistent(rd[1])

\* What holds of the Reader: it is consistent after NewReader and after every
\* Read, on every buffer whose list closes at the sentinel.
ForwardReaderIsConsistent ==
    (rd # <<>> /\ ~panicked /\ Doc.ok) => Consistent(rd[1])

\* The same after NewReader, a forward ReadRune and a Seek that leaves the
\* Reader within the document.
SoughtReaderIsConsistent ==
    (rd # <<>> /\ ~panicked /\ Doc.ok /\ rd[1].off <= len) => Consistent(rd[1])

====
